---------------------------- MODULE Spec2Model ----------------------------
(***************************************************************************)
(* Model of StockPerformanceAnalyzer (src/main.py): the monthly            *)
(* performance transform, the per-cell colour classifier and the          *)
(* positive/negative counter.                                              *)
(*                                                                         *)
(* Numbers.  Prices are float64 in the program; here they are small        *)
(* naturals.  A float64 result is modelled as the exact fraction num/den   *)
(* with den >= 0: den > 0 is the finite value num/den, num > 0 /\ den = 0  *)
(* is +inf and num = 0 /\ den = 0 is NaN, which is what numpy's float64    *)
(* division yields for x/0.0 (a RuntimeWarning, no exception).  For the    *)
(* prices of the model every subtraction is exact and every comparison of  *)
(* a correctly rounded quotient with the literals 0 and 0.1 agrees with    *)
(* the comparison of the exact fractions, so comparisons are made by       *)
(* cross-multiplication.                                                   *)
(***************************************************************************)
EXTENDS Integers, Sequences, FiniteSets, TLC

VARIABLES
    pc,                \* "new" | "ready" | "failed": position of the constructor
    stock_data,        \* the frame yf.download returned (sequence of observations)
    performance_data,  \* self.performance_data: the Year x Month pivot
    colored,           \* last result of _color_data_with_nan, or NoColors
    counts,            \* last result of _get_positive_negative_counts, or NoCounts
    error              \* name of the exception that ended the constructor

vars == <<pc, stock_data, performance_data, colored, counts, error>>

---------------------------------------------------------------------------
(* Bounds of the model *)

MaxLen   == 3      \* most observations in a downloaded frame
NumDays  == 8      \* trading days the download can draw from
MaxPrice == 11     \* highest adjusted close

(* start_date of the analyzer built in __main__: "2010-01-01" *)
FirstYear == 2010

---------------------------------------------------------------------------
(* Input domain: what yf.download can hand to the transform *)

\* The k-th trading day of the model's calendar (k = 0, 1, ...): two trading
\* days (the 4th and the 29th) in each of January and February of each year.
TradingDay(k) ==
    [year  |-> FirstYear + (k \div 4),
     month |-> 1 + ((k \div 2) % 2),
     day   |-> IF k % 2 = 0 THEN 4 ELSE 29]

DayIndexes == 0 .. (NumDays - 1)

\* Adjusted closes: 0 (the degenerate price) and the prices from 9 up, so that
\* returns below 0, equal to 0, inside (0, 0.1), equal to 0.1 (10 -> 11) and
\* above 0.1 (9 -> 10) all occur.
PriceSet == {p \in 0 .. MaxPrice : p = 0 \/ p >= 9}

Observation(k, p) ==
    [year |-> TradingDay(k).year, month |-> TradingDay(k).month,
     day |-> TradingDay(k).day, price |-> p]

\* Frames whose rows come in the order `order` (a sequence of day indexes)
FramesInOrder(order) ==
    { [i \in 1 .. Len(order) |-> Observation(order[i], ps[i])] :
        ps \in [1 .. Len(order) -> PriceSet] }

\* Sequences of pairwise distinct day indexes, at most MaxLen long
DayOrders ==
    UNION { { o \in [1 .. n -> DayIndexes] :
                \A i, j \in 1 .. n : i # j => o[i] # o[j] } : n \in 0 .. MaxLen }

\* yf.download returns the rows in ascending date order
AscendingOrders ==
    { o \in DayOrders : \A i, j \in 1 .. Len(o) : i < j => o[i] < o[j] }

---------------------------------------------------------------------------
(* float64 values *)

NaN  == [num |-> 0, den |-> 0]
Zero == [num |-> 0, den |-> 1]
Tenth == [num |-> 1, den |-> 10]      \* the literal 0.1

IsNaN(v) == v.num = 0 /\ v.den = 0     \* np.isnan

\* a / b for b >= 0 (float64 true division; b = 0 gives inf or NaN)
Div(a, b) == [num |-> a, den |-> b]

\* v > w and v <= w on float64: every comparison with NaN is False
GT(v, w) == ~IsNaN(v) /\ ~IsNaN(w) /\ v.num * w.den > w.num * v.den
LE(v, w) == ~IsNaN(v) /\ ~IsNaN(w) /\ v.num * w.den <= w.num * v.den

---------------------------------------------------------------------------
(* _get_stock_performance_transposed *)

\* stock_data['Month'] = stock_data.index.to_period('M')
Period(o) == <<o.year, o.month>>

Periods(data) == { Period(data[i]) : i \in 1 .. Len(data) }

\* One group of groupby('Month'): the rows of the period, in frame order
Group(data, k) == SelectSeq(data, LAMBDA o : Period(o) = k)

\* Variant: the change divided by the last price of the month
MonthlyReturn_OverLast(x) ==
    Div(x[Len(x)].price - x[1].price, x[Len(x)].price)

\* lambda x: (x['Adj Close'][-1] - x['Adj Close'][0]) / x['Adj Close'][0]
MonthlyReturn(x) == Div(x[Len(x)].price - x[1].price, x[1].price)

\* stock_data.groupby('Month').apply(...)
monthly_performance(data) ==
    [k \in Periods(data) |-> MonthlyReturn(Group(data, k))]

\* monthly_performance.pivot("Year", "Month", 0)
performance_pivot(data) ==
    LET mp      == monthly_performance(data)
        index   == { k[1] : k \in DOMAIN mp }
        columns == { k[2] : k \in DOMAIN mp }
    IN  [index   |-> index,
         columns |-> columns,
         cell    |-> [c \in index \X columns |->
                        IF c \in DOMAIN mp THEN mp[c] ELSE NaN]]

NoFrame == [index |-> {}, columns |-> {}, cell |-> <<>>]

\* Exceptions the pandas calls of the transform raise on a frame without rows
\* (to_period on a non-datetime index, reset_index, pivot on the column 0)
PandasErrors == {"AttributeError", "ValueError", "KeyError"}

\* Variant: a frame without rows goes through and yields an empty pivot
Outcomes_NoFailure(data) ==
    { [pc |-> "ready", error |-> "none", frame |-> performance_pivot(data)] }

\* The ways the transform can end on `data`
Outcomes(data) ==
    IF data = <<>>
    THEN { [pc |-> "failed", error |-> e, frame |-> NoFrame] : e \in PandasErrors }
    ELSE { [pc |-> "ready", error |-> "none", frame |-> performance_pivot(data)] }

---------------------------------------------------------------------------
(* classifier and counter *)

\* Variant: 0.1 itself classified as large (value >= 0.1)
_apply_color_open_boundary(value) ==
    IF IsNaN(value) THEN -1
    ELSE IF LE(Tenth, value) THEN 2
    ELSE IF LE(Zero, value) /\ LE(value, Tenth) THEN 1
    ELSE 0

\* Variant: 0 itself left to the last branch (0 < value <= 0.1)
_apply_color_zero_excluded(value) ==
    IF IsNaN(value) THEN -1
    ELSE IF GT(value, Tenth) THEN 2
    ELSE IF GT(value, Zero) /\ LE(value, Tenth) THEN 1
    ELSE 0

\* Variant: the codes of the last two branches exchanged
_apply_color_codes_swapped(value) ==
    IF IsNaN(value) THEN -1
    ELSE IF GT(value, Tenth) THEN 2
    ELSE IF LE(Zero, value) /\ LE(value, Tenth) THEN 0
    ELSE 1

_apply_color_with_nan(value) ==
    IF IsNaN(value) THEN -1
    ELSE IF GT(value, Tenth) THEN 2
    ELSE IF LE(Zero, value) /\ LE(value, Tenth) THEN 1
    ELSE 0

\* np.vectorize(self._apply_color_with_nan)(self.performance_data)
_color_data_with_nan(frame) ==
    [c \in DOMAIN frame.cell |-> _apply_color_with_nan(frame.cell[c])]

\* Labels of the result of a sum over `axis`, and the cells summed for a label
SumLabels(frame, axis) == IF axis = 0 THEN frame.columns ELSE frame.index

CellsAlong(frame, axis, label) ==
    IF axis = 0 THEN { <<y, label>> : y \in frame.index }
    ELSE { <<label, m>> : m \in frame.columns }

\* Variant: zero cells counted as positive (>= 0)
positive_counts_nonnegative(frame, axis) ==
    [l \in SumLabels(frame, axis) |->
        Cardinality({ c \in CellsAlong(frame, axis, l) : LE(Zero, frame.cell[c]) })]

\* (self.performance_data > 0).sum(axis=axis)
positive_counts(frame, axis) ==
    [l \in SumLabels(frame, axis) |->
        Cardinality({ c \in CellsAlong(frame, axis, l) : GT(frame.cell[c], Zero) })]

\* Variant: zero cells not counted as negative (< 0)
negative_counts_strict(frame, axis) ==
    [l \in SumLabels(frame, axis) |->
        Cardinality({ c \in CellsAlong(frame, axis, l) :
                        LE(frame.cell[c], Zero) /\ ~LE(Zero, frame.cell[c]) })]

\* (self.performance_data <= 0).sum(axis=axis)
negative_counts(frame, axis) ==
    [l \in SumLabels(frame, axis) |->
        Cardinality({ c \in CellsAlong(frame, axis, l) : LE(frame.cell[c], Zero) })]

_get_positive_negative_counts(frame, axis) ==
    [axis |-> axis,
     positive |-> positive_counts(frame, axis),
     negative |-> negative_counts(frame, axis)]

NoColors == <<>>
NoCounts == [axis |-> -1, positive |-> <<>>, negative |-> <<>>]

---------------------------------------------------------------------------
(* Operations *)

Init ==
    /\ pc = "new"
    /\ stock_data = <<>>
    /\ performance_data = NoFrame
    /\ colored = NoColors
    /\ counts = NoCounts
    /\ error = "none"

\* StockPerformanceAnalyzer.__init__ with yf.download returning `data`
Construct(data) ==
    /\ \E r \in Outcomes(data) :
        /\ pc' = r.pc
        /\ error' = r.error
        /\ performance_data' = r.frame
    /\ stock_data' = data
    /\ UNCHANGED <<colored, counts>>

\* The download as yfinance delivers it: rows in ascending date order
Download ==
    /\ pc = "new"
    /\ \E o \in AscendingOrders : \E data \in FramesInOrder(o) : Construct(data)

\* A download whose row order is not guaranteed
DownloadAnyOrder ==
    /\ pc = "new"
    /\ \E o \in DayOrders : \E data \in FramesInOrder(o) : Construct(data)

plot_heatmap ==
    /\ pc = "ready"
    /\ colored' = _color_data_with_nan(performance_data)
    /\ UNCHANGED <<pc, stock_data, performance_data, counts, error>>

_plot_histogram(axis) ==
    /\ pc = "ready"
    /\ counts' = _get_positive_negative_counts(performance_data, axis)
    /\ UNCHANGED <<pc, stock_data, performance_data, colored, error>>

plot_monthly_histogram == _plot_histogram(0)

plot_yearly_histogram == _plot_histogram(1)

Next ==
    \/ Download
    \/ plot_heatmap
    \/ plot_monthly_histogram
    \/ plot_yearly_histogram

Spec == Init /\ [][Next]_vars

NextAnyOrder ==
    \/ DownloadAnyOrder
    \/ plot_heatmap
    \/ plot_monthly_histogram
    \/ plot_yearly_histogram

SpecAnyOrder == Init /\ [][NextAnyOrder]_vars

---------------------------------------------------------------------------
(* Vocabulary of the properties, stated on the input and on the fractions *)
(* directly rather than through the operators above                       *)

AllYears  == { TradingDay(k).year : k \in DayIndexes }
AllMonths == 1 .. 12

Constructed == pc # "new"

\* Chronological order of two observations
DateLess(a, b) ==
    \/ a.year < b.year
    \/ a.year = b.year /\ a.month < b.month
    \/ a.year = b.year /\ a.month = b.month /\ a.day < b.day

\* Rows in strictly ascending date order
IsSorted(data) ==
    \A i, j \in 1 .. Len(data) : i < j => DateLess(data[i], data[j])

\* Rows of the input that fall in calendar month (y, m)
ObsIn(y, m) ==
    { i \in 1 .. Len(stock_data) :
        stock_data[i].year = y /\ stock_data[i].month = m }

\* The chronologically first and last row of a month that has rows
Earliest(y, m) ==
    CHOOSE i \in ObsIn(y, m) :
        \A j \in ObsIn(y, m) : j # i => DateLess(stock_data[i], stock_data[j])

Latest(y, m) ==
    CHOOSE i \in ObsIn(y, m) :
        \A j \in ObsIn(y, m) : j # i => DateLess(stock_data[j], stock_data[i])

AllPricesPositive == \A i \in 1 .. Len(stock_data) : stock_data[i].price > 0

HasCell(y, m) == <<y, m>> \in DOMAIN performance_data.cell

Missing(v) == v.num = 0 /\ v.den = 0

\* A cell that holds a value rather than the missing marker
Defined(y, m) == HasCell(y, m) /\ ~Missing(performance_data.cell[<<y, m>>])

\* Same float64 value (NaN cells compare as the same missing marker)
SameValue(v, w) ==
    IF Missing(v) \/ Missing(w) THEN Missing(v) /\ Missing(w)
    ELSE (v.den = 0 <=> w.den = 0) /\ v.num * w.den = w.num * v.den

---------------------------------------------------------------------------
(* C1: on a non-empty, date-ascending input with all prices > 0, the cell *)
(* of every month that has an observation equals                          *)
(* (lastPrice - firstPrice) / firstPrice for the chronologically first    *)
(* and last observation of the month; an input confined to one month      *)
(* yields a matrix of exactly one cell.                                   *)
C1_MonthlyReturn ==
    (pc = "ready" /\ IsSorted(stock_data) /\ AllPricesPositive) =>
        /\ \A y \in AllYears, m \in AllMonths :
              ObsIn(y, m) # {} =>
                  LET f == stock_data[Earliest(y, m)].price
                      l == stock_data[Latest(y, m)].price
                  IN  /\ HasCell(y, m)
                      /\ performance_data.cell[<<y, m>>].den > 0
                      /\ performance_data.cell[<<y, m>>].num * f
                            = (l - f) * performance_data.cell[<<y, m>>].den
        /\ Cardinality(Periods(stock_data)) = 1 =>
              Cardinality(DOMAIN performance_data.cell) = 1

\* A single-month input whose two observations have different positive prices
C1_Witness ==
    /\ pc = "ready"
    /\ AllPricesPositive
    /\ Len(stock_data) = 2
    /\ Cardinality(Periods(stock_data)) = 1
    /\ stock_data[1].price # stock_data[2].price
    /\ Cardinality(DOMAIN performance_data.cell) = 1

(* C2: a (year, month) cell holds a defined value if and only if the      *)
(* input has an observation in that month.                                *)
C2_DefinedIffObserved ==
    pc = "ready" =>
        \A y \in AllYears, m \in AllMonths :
            Defined(y, m) <=> ObsIn(y, m) # {}

(* C3: the classifier returns exactly one of -1, 0, 1, 2: -1 for a        *)
(* missing cell, 2 for value > 0.10, 1 for 0 <= value <= 0.10 (both ends  *)
(* inclusive), 0 for value < 0.                                           *)
C3_ClassifierTotal ==
    colored # NoColors =>
        /\ DOMAIN colored = DOMAIN performance_data.cell
        /\ \A c \in DOMAIN colored :
              LET v == performance_data.cell[c]
                  k == colored[c]
              IN  /\ k \in {-1, 0, 1, 2}
                  /\ k = -1 <=> Missing(v)
                  /\ k = 2 <=> (~Missing(v) /\ 10 * v.num > v.den)
                  /\ k = 1 <=> (~Missing(v) /\ v.num >= 0 /\ 10 * v.num <= v.den)
                  /\ k = 0 <=> (~Missing(v) /\ v.num < 0)

\* A coloured matrix with a cell of exactly 0.10, a cell of exactly 0 and a
\* missing cell
C3_Witness ==
    /\ colored # NoColors
    /\ \E c \in DOMAIN colored :
          /\ performance_data.cell[c].den = 10 * performance_data.cell[c].num
          /\ performance_data.cell[c].num > 0
          /\ colored[c] = 1
    /\ \E c \in DOMAIN colored : colored[c] = -1
    /\ \E c \in DOMAIN colored :
          performance_data.cell[c].num = 0 /\ colored[c] = 1

\* Cells of the matrix summed into the entry `label` of a sum over `axis`
CellsOf(axis, label) ==
    { c \in DOMAIN performance_data.cell : c[IF axis = 0 THEN 2 ELSE 1] = label }

(* C4: the two count vectors have the same index (months for axis 0,      *)
(* years for axis 1); positive counts the cells > 0, negative the cells   *)
(* <= 0, missing cells are in neither; positive + negative <= cells along *)
(* the axis, with equality exactly when none of them is missing.          *)
C4_Counts ==
    counts # NoCounts =>
        LET labels == IF counts.axis = 0 THEN performance_data.columns
                      ELSE performance_data.index
        IN  /\ counts.axis \in {0, 1}
            /\ DOMAIN counts.positive = labels
            /\ DOMAIN counts.negative = labels
            /\ \A l \in labels :
                  LET cells == CellsOf(counts.axis, l)
                      val(c) == performance_data.cell[c]
                  IN  /\ counts.positive[l] = Cardinality(
                            { c \in cells : ~Missing(val(c)) /\ val(c).num > 0 })
                      /\ counts.negative[l] = Cardinality(
                            { c \in cells : ~Missing(val(c)) /\ val(c).num <= 0 })
                      /\ counts.positive[l] + counts.negative[l] <= Cardinality(cells)
                      /\ counts.positive[l] + counts.negative[l] = Cardinality(cells)
                            <=> \A c \in cells : ~Missing(val(c))

\* Counts by year over a matrix in which one year has a positive cell and a
\* missing cell and another year has a zero-or-negative cell
C4_Witness ==
    /\ counts # NoCounts
    /\ counts.axis = 1
    /\ \E l \in DOMAIN counts.positive :
          /\ counts.positive[l] = 1
          /\ counts.positive[l] + counts.negative[l] < Cardinality(CellsOf(1, l))
    /\ \E l \in DOMAIN counts.negative : counts.negative[l] = 1

(* C5 (as claimed): on an empty observation sequence the transform fails  *)
(* with an EmptyInputError and never returns an empty matrix.             *)
C5_EmptyInputError ==
    (Constructed /\ stock_data = <<>>) =>
        pc = "failed" /\ error = "EmptyInputError"

(* C5 (amended): on an empty observation sequence the transform fails     *)
(* with an exception raised by the pandas calls it makes; it never        *)
(* completes, so no empty matrix is returned.                             *)
C5_EmptyInputFails ==
    (Constructed /\ stock_data = <<>>) =>
        /\ pc = "failed"
        /\ error \in {"AttributeError", "ValueError", "KeyError"}
        /\ performance_data = NoFrame
        /\ colored = NoColors
        /\ counts = NoCounts

C5_Witness ==
    Constructed /\ stock_data = <<>> /\ pc = "failed"

(* C6: when the chronologically first observation of a month has price 0  *)
(* the transform fails with a DivisionByZeroError and returns no matrix.  *)
C6_ZeroFirstPriceFails ==
    (Constructed /\ \E y \in AllYears, m \in AllMonths :
                        ObsIn(y, m) # {} /\ stock_data[Earliest(y, m)].price = 0) =>
        pc = "failed" /\ error = "DivisionByZeroError"

\* The frame sorted by date ascending
SortByDate(data) ==
    CHOOSE s \in [1 .. Len(data) -> { data[i] : i \in 1 .. Len(data) }] :
        IsSorted(s)

SameMatrix(a, b) ==
    /\ a.index = b.index
    /\ a.columns = b.columns
    /\ \A c \in DOMAIN a.cell : SameValue(a.cell[c], b.cell[c])

(* C7: on an input that is not in ascending date order the transform     *)
(* either fails with an UnsortedInputError or returns the matrix of the   *)
(* same observations sorted by date.  Stated for the inputs with all      *)
(* prices > 0, so that a violation does not rest on a division by zero.   *)
C7_DateOrderEnforced ==
    (Constructed /\ ~IsSorted(stock_data) /\ AllPricesPositive) =>
        \/ pc = "failed" /\ error = "UnsortedInputError"
        \/ pc = "ready" /\ SameMatrix(performance_data,
                                      performance_pivot(SortByDate(stock_data)))

(* C8: a month with exactly one observation (price > 0) has the return   *)
(* exactly 0, a defined value, and the classifier maps the cell to 1.     *)
C8_SingleObservationMonth ==
    pc = "ready" =>
        \A y \in AllYears, m \in AllMonths :
            (Cardinality(ObsIn(y, m)) = 1
                /\ \A i \in ObsIn(y, m) : stock_data[i].price > 0) =>
                /\ Defined(y, m)
                /\ performance_data.cell[<<y, m>>].num = 0
                /\ performance_data.cell[<<y, m>>].den > 0
                /\ colored # NoColors => colored[<<y, m>>] = 1

C8_Witness ==
    /\ colored # NoColors
    /\ \E y \in AllYears, m \in AllMonths :
          /\ Cardinality(ObsIn(y, m)) = 1
          /\ \A i \in ObsIn(y, m) : stock_data[i].price > 0
          /\ colored[<<y, m>>] = 1

(* C9: for non-missing values v <= w the class code of v is <= the class *)
(* code of w.                                                             *)
C9_ClassifierMonotonic ==
    colored # NoColors =>
        \A c, d \in DOMAIN colored :
            LET v == performance_data.cell[c]
                w == performance_data.cell[d]
            IN  (~Missing(v) /\ ~Missing(w) /\ v.num * w.den <= w.num * v.den)
                    => colored[c] <= colored[d]

\* Two cells of one matrix in different classes: a negative one beside a
\* zero one, or a zero one beside one above 0.10
C9_Witness ==
    /\ colored # NoColors
    /\ \E c, d \in DOMAIN colored :
          \/ colored[c] = 0 /\ colored[d] = 1
          \/ colored[c] = 1 /\ colored[d] = 2

(* C10: over one matrix, along either axis, the positive count is the     *)
(* number of cells classified 2 or classified 1 with value > 0, the       *)
(* negative count is the number of cells classified 0 or classified 1     *)
(* with value exactly 0, and the cells in neither count are exactly the   *)
(* cells classified -1.                                                   *)
C10_ClassifierCounterConsistent ==
    (colored # NoColors /\ counts # NoCounts) =>
        \A l \in DOMAIN counts.positive :
            LET cells == CellsOf(counts.axis, l)
                val(c) == performance_data.cell[c]
            IN  /\ counts.positive[l] = Cardinality(
                      { c \in cells : colored[c] = 2
                                        \/ (colored[c] = 1 /\ val(c).num > 0) })
                /\ counts.negative[l] = Cardinality(
                      { c \in cells : colored[c] = 0
                                        \/ (colored[c] = 1 /\ val(c).num = 0) })
                /\ Cardinality(cells) - counts.positive[l] - counts.negative[l]
                      = Cardinality({ c \in cells : colored[c] = -1 })

\* Both products computed over a matrix with a zero cell, a positive cell of
\* class 1 and a missing cell
C10_Witness ==
    /\ colored # NoColors
    /\ counts # NoCounts
    /\ \E c \in DOMAIN colored : colored[c] = 1 /\ performance_data.cell[c].num = 0
    /\ \E c \in DOMAIN colored : colored[c] = 1 /\ performance_data.cell[c].num > 0
    /\ \E c \in DOMAIN colored : colored[c] = -1

=============================================================================
